---- MODULE Spec2Model ----
(***************************************************************************)
(* The sweep harness of MapAiryDistributionFP64_CPP/_main.cpp: seven       *)
(* plot_* functions, each opening a CSV stream, writing a header row and   *)
(* one data row per sample of a for-loop over doubles, and main, which     *)
(* runs them in order and prints END.                                      *)
(*                                                                         *)
(* Doubles.  Every double the harness computes is a dyadic rational whose  *)
(* significand needs at most 17 bits and whose exponent lies far inside    *)
(* the normal range of binary64, so +, -, *, / on them are exact in IEEE   *)
(* arithmetic.  A double is the record [m, e] with value m * 2^e, m odd    *)
(* (or m = 0, e = 0); the invariant DoublesExact checks the 17 bits and    *)
(* the exponent range, which is what makes the exact translation sound.    *)
(*                                                                         *)
(* Files.  A stream keeps a summary of the text written so far: its header *)
(* row, how many header rows it holds, what its first row is, whether a    *)
(* data row with a different number of fields than the header was written, *)
(* and its last two data rows.  std::endl flushes every row, so the        *)
(* summary is the content on disk.  The results directory is taken to      *)
(* exist (every open succeeds).                                            *)
(*                                                                         *)
(* Evaluators.  mapairy_pdf, mapairy_cdf and mapairy_quantile live in      *)
(* mapairy_distribution.hpp, which is not part of the sources; a call      *)
(* either returns a double or raises the explicit failure signal the       *)
(* specification describes (an exception, the evaluators returning a       *)
(* plain double).  The Quantile Evaluator's bracketed root-finding is      *)
(* modelled from the specification's section 4.3 on an integer grid, as a  *)
(* state machine of its own (QuantileSpec).                                *)
(***************************************************************************)
EXTENDS Integers, Sequences, FiniteSets, TLC

VARIABLES
    pc,      \* the statement of main being executed: a plot_* name, "END", "done"
    at,      \* the position inside the running plot_* function: "open", "for", "inner",
             \* "next", "close", or "terminated" once an exception has left main
    x0,      \* the octave base of the nested sweeps
    x,       \* the sample point
    n,       \* data rows written in the current octave (nested sweeps) or sweep (flat sweeps)
    ofs,     \* the open output stream
    closed,  \* the files closed so far, in order
    calls,   \* the evaluator calls made by the latest loop iteration
    cout,    \* the console output
    qpc,     \* the position inside one Quantile Evaluator call: "idle", "entry", "loop", "returned"
    p,       \* its probability argument, in units of 1/PScale
    complement,  \* its complement flag
    lo, hi,  \* the current bracket
    est,     \* the current best estimate
    iter,    \* the iteration count
    status   \* how the call ended: "none", "ok", "domain_error", "convergence_failure"

hvars == <<pc, at, x0, x, n, ofs, closed, calls, cout>>
qvars == <<qpc, p, complement, lo, hi, est, iter, status>>
vars == <<pc, at, x0, x, n, ofs, closed, calls, cout,
          qpc, p, complement, lo, hi, est, iter, status>>

-----------------------------------------------------------------------------
(* Doubles *)

Abs(i) == IF i < 0 THEN -i ELSE i

Min(i, j) == IF i <= j THEN i ELSE j

Pow2(k) == 2 ^ k

\* The number of bits of i >= 0: the least k with i < 2^k.
BitLen(i) == CHOOSE k \in 0..30 : i < 2 ^ k /\ (k = 0 \/ i >= 2 ^ (k - 1))

\* The number of trailing zero bits of i # 0.
TrailingZeros(i) == CHOOSE k \in 0..29 : i % (2 ^ k) = 0 /\ i % (2 ^ (k + 1)) # 0

\* The record of the double m * 2^e: the significand made odd.  (The
\* significand is bound to its value once, whatever expression gives it.)
Norm(m, e) ==
    CHOOSE r \in { IF v = 0 THEN [m |-> 0, e |-> 0]
                   ELSE [m |-> v \div (2 ^ TrailingZeros(Abs(v))),
                         e |-> w + TrailingZeros(Abs(v))] : v \in {m}, w \in {e} } : TRUE

\* The double with value m * 2^e.
D(m, e) == Norm(m, e)

ldexp(m, e) == Norm(m, e)

Neg(a) == [m |-> -a.m, e |-> a.e]

Add(a, b) ==
    IF a.m = 0 THEN b
    ELSE IF b.m = 0 THEN a
    ELSE LET e == Min(a.e, b.e)
         IN  Norm(a.m * Pow2(a.e - e) + b.m * Pow2(b.e - e), e)

Sub(a, b) == Add(a, Neg(b))

Mul(a, b) == Norm(a.m * b.m, a.e + b.e)

\* Division by a power of two (the only divisors of the source: 2, 256, 1024, 8192).
Div(a, b) == Norm(a.m * b.m, a.e - b.e)

Sign(a) == IF a.m > 0 THEN 1 ELSE IF a.m < 0 THEN -1 ELSE 0

\* One more than the position of the leading bit of |a|: 2^(Top-1) <= |a| < 2^Top.
Top(a) == a.e + BitLen(Abs(a.m))

LessPos(a, b) ==
    IF Top(a) # Top(b) THEN Top(a) < Top(b)
    ELSE LET e == Min(a.e, b.e)
         IN  a.m * Pow2(a.e - e) < b.m * Pow2(b.e - e)

Less(a, b) ==
    CASE Sign(a) < Sign(b) -> TRUE
      [] Sign(a) > Sign(b) -> FALSE
      [] Sign(a) = 0 -> FALSE
      [] Sign(a) = 1 -> LessPos(a, b)
      [] OTHER -> LessPos(Neg(b), Neg(a))

LessEq(a, b) == a = b \/ Less(a, b)

\* a is a normal binary64 value (or zero) that the model represents exactly:
\* a significand of at most 17 (of the 53) bits, an exponent in -1022..1023.
IsDouble(a) ==
    /\ a.m = 0 \/ a.m % 2 = 1
    /\ BitLen(Abs(a.m)) <= 17
    /\ a.m # 0 => /\ Top(a) - 1 >= -1022
                  /\ Top(a) - 1 <= 1023

Zero == D(0, 0)

\* The double literals and ldexp calls of the source.
dm6 == D(-6, 0)

d1 == D(1, 0)

d2 == D(2, 0)

d64 == D(64, 0)

d256 == D(256, 0)

\* 1. / 1024
d1_1024 == D(1, -10)

\* 1. / 8192
d1_8192 == D(1, -13)

ldexp_1_64 == ldexp(1, 64)

ldexp_1_m1000 == ldexp(1, -1000)

ldexp_1_m128 == ldexp(1, -128)

-----------------------------------------------------------------------------
(* Streams and rows *)

NoStream == [path |-> "", header |-> <<>>, hdrs |-> 0, first |-> "none",
             ragged |-> FALSE, last |-> <<>>, prev |-> <<>>]

\* ofstream ofs(filepath): an empty file.
ofstream(filepath) == [NoStream EXCEPT !.path = filepath]

\* ofs << "a,b" << std::endl: header is the row split at its commas.
WriteHeader(o, header) ==
    [o EXCEPT !.hdrs = @ + 1,
              !.header = IF o.hdrs = 0 THEN header ELSE @,
              !.first = IF @ = "none" THEN "header" ELSE @]

\* ofs << f1 << ',' << f2 ... << std::endl.
WriteRow(o, row) ==
    [o EXCEPT !.first = IF @ = "none" THEN "row" ELSE @,
              !.ragged = @ \/ Len(row) # Len(o.header),
              !.prev = o.last,
              !.last = row]

\* A field holding the input x, and a field holding an evaluator's result.
Num(a) == [k |-> "in", v |-> a]

Out(f, a, c) == [k |-> "out", f |-> f, v |-> a, complement |-> c]

Call(f, a, c) == [f |-> f, x |-> a, complement |-> c]

-----------------------------------------------------------------------------
(* main *)

Order == <<"plot_pdf", "plot_pdf_limit", "plot_cdf", "plot_cdf_limit",
           "plot_quantile", "plot_quantilelower_limit", "plot_quantileupper_limit">>

Paths == <<"../results/mapairy_pdf_cpp.csv",
           "../results/mapairy_pdf_limit_cpp.csv",
           "../results/mapairy_cdf_cpp.csv",
           "../results/mapairy_cdf_limit_cpp.csv",
           "../results/mapairy_quantile_cpp.csv",
           "../results/mapairy_quantilelower_limit_cpp.csv",
           "../results/mapairy_quantileupper_limit_cpp.csv">>

Index(f) == CHOOSE i \in 1..Len(Order) : Order[i] = f

filepath(f) == Paths[Index(f)]

\* The statement of main that follows the call of f.
NextStmt(f) == IF Index(f) < Len(Order) THEN Order[Index(f) + 1] ELSE "END"

-----------------------------------------------------------------------------
(* The pieces shared by the plot_* functions *)

\* ofstream ofs(filepath); ofs << header << std::endl; ofs << std::scientific
\* << std::setprecision(16); and the initialisation of the (outer) for-loop.
Enter(f, header) ==
    /\ pc = f
    /\ at = "open"
    /\ ofs' = WriteHeader(ofstream(filepath(f)), header)
    /\ at' = "for"
    /\ n' = 0
    /\ calls' = {}
    /\ UNCHANGED <<pc, closed, cout, qvars>>

\* ofs.close(); and the return to main.
Close(f) ==
    /\ pc = f
    /\ at = "close"
    /\ closed' = Append(closed, ofs)
    /\ ofs' = NoStream
    /\ pc' = NextStmt(f)
    /\ at' = "open"
    /\ x' = Zero
    /\ x0' = Zero
    /\ n' = 0
    /\ calls' = {}
    /\ UNCHANGED <<cout, qvars>>

\* One iteration of a loop body  ofs << x << ',' << f(x[, c]) << std::endl;
\* followed by the loop's increment x := next.  The evaluator returns, or it
\* raises: no plot_* function and not main has a handler, so the exception
\* leaves main and the run is terminated.  What the statement had put into the
\* stream's buffer before the call is never flushed; the rows before it were
\* flushed by their std::endl.
Sample(f, c, next) ==
    /\ calls' = {Call(f, x, c)}
    /\ \/ /\ ofs' = WriteRow(ofs, <<Num(x), Out(f, x, c)>>)
          /\ n' = n + 1
          /\ x' = next
          /\ UNCHANGED <<pc, at, x0, closed, cout, qvars>>
       \/ /\ at' = "terminated"
          /\ UNCHANGED <<pc, x0, x, n, ofs, closed, cout, qvars>>

-----------------------------------------------------------------------------
(* plot_pdf *)

pdf_header == <<"x", "pdf">>

\* x <= 64
pdf_cond(a) == LessEq(a, d64)

\* x += 0. / 1024
pdf_step_stuck(a) == Add(a, D(0, -10))

\* x += 1. / 1024
pdf_step(a) == Add(a, d1_1024)

plot_pdf ==
    \/ /\ Enter("plot_pdf", pdf_header)
       /\ x' = dm6
       /\ UNCHANGED x0
    \/ /\ pc = "plot_pdf" /\ at = "for"
       /\ pdf_cond(x)
       /\ Sample("mapairy_pdf", FALSE, pdf_step(x))
    \/ /\ pc = "plot_pdf" /\ at = "for"
       /\ ~pdf_cond(x)
       /\ at' = "close"
       /\ UNCHANGED <<pc, x0, x, n, ofs, closed, calls, cout, qvars>>
    \/ Close("plot_pdf")

-----------------------------------------------------------------------------
(* plot_pdf_limit *)

pdf_limit_header == <<"x", "pdf">>

\* x0 < ldexp_1_64
pdf_limit_outer_strict(b) == Less(b, ldexp_1_64)

\* x0 <= ldexp_1_64
pdf_limit_outer(b) == LessEq(b, ldexp_1_64)

\* x0 *= 2
pdf_limit_next(b) == Mul(b, d2)

\* x <= x0 * 2
pdf_limit_inner_inclusive(a, b) == LessEq(a, Mul(b, d2))

\* x < x0 * 2
pdf_limit_inner(a, b) == Less(a, Mul(b, d2))

\* x += x0 / 256
pdf_limit_step(a, b) == Add(a, Div(b, d256))

plot_pdf_limit ==
    \/ /\ Enter("plot_pdf_limit", pdf_limit_header)
       /\ x0' = d64
       /\ UNCHANGED x
    \/ /\ pc = "plot_pdf_limit" /\ at = "for"
       /\ pdf_limit_outer(x0)
       /\ x' = x0
       /\ n' = 0
       /\ at' = "inner"
       /\ UNCHANGED <<pc, x0, ofs, closed, calls, cout, qvars>>
    \/ /\ pc = "plot_pdf_limit" /\ at = "for"
       /\ ~pdf_limit_outer(x0)
       /\ at' = "close"
       /\ UNCHANGED <<pc, x0, x, n, ofs, closed, calls, cout, qvars>>
    \/ /\ pc = "plot_pdf_limit" /\ at = "inner"
       /\ pdf_limit_inner(x, x0)
       /\ Sample("mapairy_pdf", FALSE, pdf_limit_step(x, x0))
    \/ /\ pc = "plot_pdf_limit" /\ at = "inner"
       /\ ~pdf_limit_inner(x, x0)
       /\ at' = "next"
       /\ UNCHANGED <<pc, x0, x, n, ofs, closed, calls, cout, qvars>>
    \/ /\ pc = "plot_pdf_limit" /\ at = "next"
       /\ x0' = pdf_limit_next(x0)
       /\ at' = "for"
       /\ UNCHANGED <<pc, x, n, ofs, closed, calls, cout, qvars>>
    \/ Close("plot_pdf_limit")

-----------------------------------------------------------------------------
(* plot_cdf *)

cdf_header == <<"x", "cdf", "ccdf">>

\* x <= 64
cdf_cond(a) == LessEq(a, d64)

\* x += 1. / 1024
cdf_step(a) == Add(a, d1_1024)

\* ofs << x << ',' << mapairy_cdf(x) << std::endl
cdf_row_short(a) == <<Num(a), Out("mapairy_cdf", a, FALSE)>>

\* ofs << x << ',' << mapairy_cdf(x) << ',' << mapairy_cdf(x, true) << std::endl
cdf_row(a) == <<Num(a), Out("mapairy_cdf", a, FALSE), Out("mapairy_cdf", a, TRUE)>>

\* The two evaluator calls of one row.  Before C++17 their order is
\* unspecified, so a raise by either may come before or after the other call.
plot_cdf ==
    \/ /\ Enter("plot_cdf", cdf_header)
       /\ x' = dm6
       /\ UNCHANGED x0
    \/ /\ pc = "plot_cdf" /\ at = "for"
       /\ cdf_cond(x)
       /\ calls' = {Call("mapairy_cdf", x, FALSE), Call("mapairy_cdf", x, TRUE)}
       /\ ofs' = WriteRow(ofs, cdf_row(x))
       /\ n' = n + 1
       /\ x' = cdf_step(x)
       /\ UNCHANGED <<pc, at, x0, closed, cout, qvars>>
    \/ /\ pc = "plot_cdf" /\ at = "for"
       /\ cdf_cond(x)
       /\ \E made \in (SUBSET {Call("mapairy_cdf", x, FALSE), Call("mapairy_cdf", x, TRUE)}) \ {{}} :
              calls' = made
       /\ at' = "terminated"
       /\ UNCHANGED <<pc, x0, x, n, ofs, closed, cout, qvars>>
    \/ /\ pc = "plot_cdf" /\ at = "for"
       /\ ~cdf_cond(x)
       /\ at' = "close"
       /\ UNCHANGED <<pc, x0, x, n, ofs, closed, calls, cout, qvars>>
    \/ Close("plot_cdf")

-----------------------------------------------------------------------------
(* plot_cdf_limit *)

cdf_limit_header == <<"x", "ccdf">>

\* x0 <= ldexp_1_64
cdf_limit_outer(b) == LessEq(b, ldexp_1_64)

\* x0 *= 2
cdf_limit_next(b) == Mul(b, d2)

\* x < x0 * 2
cdf_limit_inner(a, b) == Less(a, Mul(b, d2))

\* x += x0 / 256
cdf_limit_step(a, b) == Add(a, Div(b, d256))

plot_cdf_limit ==
    \/ /\ Enter("plot_cdf_limit", cdf_limit_header)
       /\ x0' = d64
       /\ UNCHANGED x
    \/ /\ pc = "plot_cdf_limit" /\ at = "for"
       /\ cdf_limit_outer(x0)
       /\ x' = x0
       /\ n' = 0
       /\ at' = "inner"
       /\ UNCHANGED <<pc, x0, ofs, closed, calls, cout, qvars>>
    \/ /\ pc = "plot_cdf_limit" /\ at = "for"
       /\ ~cdf_limit_outer(x0)
       /\ at' = "close"
       /\ UNCHANGED <<pc, x0, x, n, ofs, closed, calls, cout, qvars>>
    \/ /\ pc = "plot_cdf_limit" /\ at = "inner"
       /\ cdf_limit_inner(x, x0)
       /\ Sample("mapairy_cdf", TRUE, cdf_limit_step(x, x0))
    \/ /\ pc = "plot_cdf_limit" /\ at = "inner"
       /\ ~cdf_limit_inner(x, x0)
       /\ at' = "next"
       /\ UNCHANGED <<pc, x0, x, n, ofs, closed, calls, cout, qvars>>
    \/ /\ pc = "plot_cdf_limit" /\ at = "next"
       /\ x0' = cdf_limit_next(x0)
       /\ at' = "for"
       /\ UNCHANGED <<pc, x, n, ofs, closed, calls, cout, qvars>>
    \/ Close("plot_cdf_limit")

-----------------------------------------------------------------------------
(* plot_quantile *)

quantile_header == <<"x", "quantile">>

\* x <= 1
quantile_cond_inclusive(a) == LessEq(a, d1)

\* x < 1
quantile_cond(a) == Less(a, d1)

\* x += 1. / 8192
quantile_step(a) == Add(a, d1_8192)

plot_quantile ==
    \/ /\ Enter("plot_quantile", quantile_header)
       /\ x' = d1_8192
       /\ UNCHANGED x0
    \/ /\ pc = "plot_quantile" /\ at = "for"
       /\ quantile_cond(x)
       /\ Sample("mapairy_quantile", FALSE, quantile_step(x))
    \/ /\ pc = "plot_quantile" /\ at = "for"
       /\ ~quantile_cond(x)
       /\ at' = "close"
       /\ UNCHANGED <<pc, x0, x, n, ofs, closed, calls, cout, qvars>>
    \/ Close("plot_quantile")

-----------------------------------------------------------------------------
(* plot_quantilelower_limit *)

quantilelower_header == <<"x", "quantile">>

\* x >= ldexp_1_m1000
quantilelower_cond_inclusive(a) == LessEq(ldexp_1_m1000, a)

\* x > ldexp_1_m1000
quantilelower_cond(a) == Less(ldexp_1_m1000, a)

\* x /= 2
quantilelower_step(a) == Div(a, d2)

plot_quantilelower_limit ==
    \/ /\ Enter("plot_quantilelower_limit", quantilelower_header)
       /\ x' = d1_8192
       /\ UNCHANGED x0
    \/ /\ pc = "plot_quantilelower_limit" /\ at = "for"
       /\ quantilelower_cond(x)
       /\ Sample("mapairy_quantile", FALSE, quantilelower_step(x))
    \/ /\ pc = "plot_quantilelower_limit" /\ at = "for"
       /\ ~quantilelower_cond(x)
       /\ at' = "close"
       /\ UNCHANGED <<pc, x0, x, n, ofs, closed, calls, cout, qvars>>
    \/ Close("plot_quantilelower_limit")

-----------------------------------------------------------------------------
(* plot_quantileupper_limit *)

quantileupper_header == <<"x", "cquantile">>

\* x0 > ldexp_1_m128
quantileupper_outer(b) == Less(ldexp_1_m128, b)

\* x0 /= 2
quantileupper_next(b) == Div(b, d2)

\* x >= x0 / 2
quantileupper_inner_inclusive(a, b) == LessEq(Div(b, d2), a)

\* x > x0 / 2
quantileupper_inner(a, b) == Less(Div(b, d2), a)

\* x -= x0 / 256
quantileupper_step(a, b) == Sub(a, Div(b, d256))

plot_quantileupper_limit ==
    \/ /\ Enter("plot_quantileupper_limit", quantileupper_header)
       /\ x0' = d1_8192
       /\ UNCHANGED x
    \/ /\ pc = "plot_quantileupper_limit" /\ at = "for"
       /\ quantileupper_outer(x0)
       /\ x' = x0
       /\ n' = 0
       /\ at' = "inner"
       /\ UNCHANGED <<pc, x0, ofs, closed, calls, cout, qvars>>
    \/ /\ pc = "plot_quantileupper_limit" /\ at = "for"
       /\ ~quantileupper_outer(x0)
       /\ at' = "close"
       /\ UNCHANGED <<pc, x0, x, n, ofs, closed, calls, cout, qvars>>
    \/ /\ pc = "plot_quantileupper_limit" /\ at = "inner"
       /\ quantileupper_inner(x, x0)
       /\ Sample("mapairy_quantile", TRUE, quantileupper_step(x, x0))
    \/ /\ pc = "plot_quantileupper_limit" /\ at = "inner"
       /\ ~quantileupper_inner(x, x0)
       /\ at' = "next"
       /\ UNCHANGED <<pc, x0, x, n, ofs, closed, calls, cout, qvars>>
    \/ /\ pc = "plot_quantileupper_limit" /\ at = "next"
       /\ x0' = quantileupper_next(x0)
       /\ at' = "for"
       /\ UNCHANGED <<pc, x, n, ofs, closed, calls, cout, qvars>>
    \/ Close("plot_quantileupper_limit")

-----------------------------------------------------------------------------
(* main *)

\* std::cout << "END" << std::endl; and the return from main.
PrintEnd ==
    /\ pc = "END"
    /\ cout' = Append(cout, "END")
    /\ pc' = "done"
    /\ UNCHANGED <<at, x0, x, n, ofs, closed, calls, qvars>>

main ==
    \/ plot_pdf
    \/ plot_pdf_limit
    \/ plot_cdf
    \/ plot_cdf_limit
    \/ plot_quantile
    \/ plot_quantilelower_limit
    \/ plot_quantileupper_limit
    \/ PrintEnd

QIdle ==
    /\ qpc = "idle" /\ p = 0 /\ complement = FALSE
    /\ lo = 0 /\ hi = 0 /\ est = 0 /\ iter = 0
    /\ status = "none"

Init ==
    /\ pc = "plot_pdf"
    /\ at = "open"
    /\ x0 = Zero
    /\ x = Zero
    /\ n = 0
    /\ ofs = NoStream
    /\ closed = <<>>
    /\ calls = {}
    /\ cout = <<>>
    /\ QIdle

Next == main

Spec == Init /\ [][Next]_vars

-----------------------------------------------------------------------------
(* The Quantile Evaluator (specification, section 4.3) *)

\* Arguments x are the grid points 0..XMax.
XMax == 8

\* The iteration budget.
MaxIter == 2

\* Probabilities are the multiples k/PScale; PScale stands for probability 1.
PScale == XMax * XMax

\* The Distribution Evaluator on the grid: strictly increasing from 0 to 1.
CDF(a) == a * a

CCDF(a) == PScale - CDF(a)

\* The Density Evaluator: the derivative (forward difference) of CDF.
PDF(a) == CDF(a + 1) - CDF(a)

\* The residual F(x) = CDF(x) - p, or its complement form CCDF(x) - q.
Residual(a) == IF complement THEN CCDF(a) - p ELSE CDF(a) - p

\* p (or q) outside (0,1), or equal to exactly 0 or 1.
DomainError(pr) == pr <= 0 \/ pr >= PScale

\* The residual is zero or the bracket is as narrow as the grid allows.
Converged == Residual(est) = 0 \/ hi - lo <= 1

\* No cap on iterations.
BudgetExhaustedNever(i) == FALSE

\* The cap on iterations.
BudgetExhausted(i) == i >= MaxIter

\* The root lies above the estimate.
RootAbove == IF complement THEN Residual(est) > 0 ELSE Residual(est) < 0

\* The derivative-based step: x - F(x) / F'(x), F' being PDF or -PDF.
Newton(a) ==
    IF complement THEN a + Residual(a) \div PDF(a) ELSE a - Residual(a) \div PDF(a)

\* Entry: the domain check and the initial bracket and guess.
QEntry ==
    /\ qpc = "entry"
    /\ \/ /\ DomainError(p)
          /\ status' = "domain_error"
          /\ qpc' = "returned"
          /\ UNCHANGED <<lo, hi, est, iter>>
       \/ /\ ~DomainError(p)
          /\ lo' = 0
          /\ hi' = XMax
          /\ est' = XMax \div 2
          /\ iter' = 0
          /\ qpc' = "loop"
          /\ UNCHANGED status
    /\ UNCHANGED <<p, complement, hvars>>

\* One pass of the loop: the tolerance test, the cap, and the refinement of
\* the bracket by a derivative-based step where it stays strictly inside the
\* bracket, by bisection otherwise.
QLoop ==
    /\ qpc = "loop"
    /\ \/ /\ Converged
          /\ status' = "ok"
          /\ qpc' = "returned"
          /\ UNCHANGED <<lo, hi, est, iter>>
       \/ /\ ~Converged
          /\ BudgetExhausted(iter)
          /\ status' = "convergence_failure"
          /\ qpc' = "returned"
          /\ UNCHANGED <<lo, hi, est, iter>>
       \/ /\ ~Converged
          /\ ~BudgetExhausted(iter)
          /\ LET nlo == IF RootAbove THEN est ELSE lo
                 nhi == IF RootAbove THEN hi ELSE est
                 nx == Newton(est)
             IN  /\ lo' = nlo
                 /\ hi' = nhi
                 /\ est' = IF nlo < nx /\ nx < nhi THEN nx ELSE (nlo + nhi) \div 2
          /\ iter' = iter + 1
          /\ UNCHANGED <<qpc, status>>
    /\ UNCHANGED <<p, complement, hvars>>

mapairy_quantile == QEntry \/ QLoop

\* A call of the Quantile Evaluator with any probability of the grid, the
\* out-of-domain ones included, in either complement mode.
QInit ==
    /\ pc = "mapairy_quantile"
    /\ at = "open"
    /\ x0 = Zero
    /\ x = Zero
    /\ n = 0
    /\ ofs = NoStream
    /\ closed = <<>>
    /\ calls = {}
    /\ cout = <<>>
    /\ qpc = "entry"
    /\ p \in -1..(PScale + 1)
    /\ complement \in BOOLEAN
    /\ lo = 0 /\ hi = 0 /\ est = 0 /\ iter = 0
    /\ status = "none"

\* A call runs to completion: there is no suspension point inside it.
QuantileSpec == QInit /\ [][mapairy_quantile]_vars /\ WF_vars(mapairy_quantile)

-----------------------------------------------------------------------------
(* Properties *)

\* Every double of the state is one binary64 represents exactly.
DoublesExact ==
    /\ IsDouble(x)
    /\ IsDouble(x0)
    /\ \A c \in calls : IsDouble(c.x)

TypeOK ==
    /\ pc \in {Order[i] : i \in 1..Len(Order)} \cup {"END", "done"}
    /\ at \in {"open", "for", "inner", "next", "close", "terminated"}
    /\ n \in Nat
    /\ cout \in {<<>>, <<"END">>}
    /\ DoublesExact

\* The input field of a data row.
Input(row) == row[1].v

\* C1 (as amended): the lower-tail quantile sweep passes mapairy_quantile the
\* probabilities 2^-13, 2^-14, ... (the k-th sample is 2^-(12+k)), each a
\* power of two strictly above 2^-1000, and the last and smallest one passed
\* is 2^-999: the loop ends with x = 2^-1000 never evaluated.
C1_LowerSweepEndsAt2Pow999 ==
    pc = "plot_quantilelower_limit" =>
        /\ \A c \in calls : /\ c.f = "mapairy_quantile"
                             /\ c.complement = FALSE
                             /\ c.x.m = 1
                             /\ c.x.e <= -13
                             /\ Less(ldexp_1_m1000, c.x)
        /\ (at \in {"for", "close"} /\ n >= 1) =>
               calls = {Call("mapairy_quantile", ldexp(1, -(12 + n)), FALSE)}
        /\ at = "terminated" =>
               calls = {Call("mapairy_quantile", ldexp(1, -(13 + n)), FALSE)}
        /\ at = "close" =>
               /\ calls = {Call("mapairy_quantile", ldexp(1, -999), FALSE)}
               /\ x = ldexp_1_m1000

\* C1 witness: the sweep has ended and its last evaluation was at 2^-999.
C1_Witness ==
    /\ pc = "plot_quantilelower_limit"
    /\ at = "close"
    /\ calls = {Call("mapairy_quantile", ldexp(1, -999), FALSE)}

\* C1 (as claimed): when the lower-tail sweep ends, the last and smallest
\* probability passed to mapairy_quantile is 2^-1000.
C1_LowerSweepReaches2Pow1000 ==
    (pc = "plot_quantilelower_limit" /\ at = "close") =>
        calls = {Call("mapairy_quantile", ldexp_1_m1000, FALSE)}

\* C2 (as amended): the upper-tail quantile sweep passes mapairy_quantile(q, true)
\* strictly descending q with 2^-128 < q <= 2^-13, and the last and smallest
\* one passed is 129 * 2^-135 = 2^-128 * (1 + 1/128): 2^-128 is never evaluated.
C2_UpperSweepEndsAbove2Pow128 ==
    pc = "plot_quantileupper_limit" =>
        /\ \A c \in calls : /\ c.f = "mapairy_quantile"
                             /\ c.complement = TRUE
                             /\ Less(ldexp_1_m128, c.x)
                             /\ LessEq(c.x, ldexp(1, -13))
        /\ (at = "inner" /\ n = 1 /\ ofs.prev = <<>>) =>
               calls = {Call("mapairy_quantile", ldexp(1, -13), TRUE)}
        /\ ofs.prev # <<>> => Less(Input(ofs.last), Input(ofs.prev))
        /\ at = "close" => calls = {Call("mapairy_quantile", D(129, -135), TRUE)}

\* C2 witness: the sweep has ended and its last evaluation was at 129 * 2^-135.
C2_Witness ==
    /\ pc = "plot_quantileupper_limit"
    /\ at = "close"
    /\ calls = {Call("mapairy_quantile", D(129, -135), TRUE)}

\* C2 (as claimed): when the upper-tail sweep ends, the last and smallest
\* complement probability passed to mapairy_quantile(q, true) is 2^-128.
C2_UpperSweepReaches2Pow128 ==
    (pc = "plot_quantileupper_limit" /\ at = "close") =>
        calls = {Call("mapairy_quantile", ldexp_1_m128, TRUE)}

\* C3 (as amended): in plot_pdf_limit and plot_cdf_limit the octave base x0
\* starts at 64 and doubles through 2^64 inclusive (59 octaves), the k-th
\* sample of an octave is x0 + (k-1) * x0/256, and every argument passed
\* satisfies 64 <= x < 2^65, the last being 2^65 - 2^56 = 511 * 2^56.
C3_RightTailSweepsEndBelow2Pow65 ==
    pc \in {"plot_pdf_limit", "plot_cdf_limit"} =>
        /\ \A c \in calls : /\ c.f = (IF pc = "plot_pdf_limit" THEN "mapairy_pdf" ELSE "mapairy_cdf")
                             /\ c.complement = (pc = "plot_cdf_limit")
                             /\ LessEq(d64, c.x)
                             /\ Less(c.x, ldexp(1, 65))
        /\ at # "open" => /\ x0.m = 1
                          /\ x0.e >= 6
                          /\ x0.e <= 65
        /\ (at = "for" /\ ofs.last = <<>>) => x0 = d64
        /\ (at = "for" /\ ofs.last # <<>>) =>
               Input(ofs.last) = Sub(x0, Div(x0, D(512, 0)))
        /\ at \in {"inner", "terminated"} =>
               x = Add(x0, Mul(D(n, 0), Div(x0, d256)))
        /\ at = "close" =>
               /\ x0 = ldexp(1, 65)
               /\ \E c \in calls : c.x = D(511, 56)

\* C3 witness: the right-tail CCDF sweep has ended after evaluating 2^65 - 2^56.
C3_Witness ==
    /\ pc = "plot_cdf_limit"
    /\ at = "close"
    /\ calls = {Call("mapairy_cdf", D(511, 56), TRUE)}

\* C3 (as claimed): every argument passed to mapairy_pdf(x) or
\* mapairy_cdf(x, true) by the right-tail sweeps satisfies 64 <= x <= 2^64.
C3_RightTailSweepsStayWithin2Pow64 ==
    pc \in {"plot_pdf_limit", "plot_cdf_limit"} =>
        \A c \in calls : LessEq(d64, c.x) /\ LessEq(c.x, ldexp_1_64)

\* C4 (as claimed): an evaluator call that fails for one sample aborts only
\* that row; the run is never ended by it and goes on towards END.
C4_FailureAbortsOnlyTheRow == at # "terminated"

\* C5: a call of the Quantile Evaluator never passes its iteration cap, ends
\* either with a value meeting the tolerance, or with a convergence failure
\* exactly when the budget is exhausted without meeting it, or with a domain
\* error exactly for p outside (0,1), the three being distinct; and every
\* call does end.
C5_QuantileCallIsBounded ==
    /\ [](iter <= MaxIter)
    /\ [](qpc = "returned" =>
            \/ status = "ok" /\ ~DomainError(p) /\ Converged /\ lo <= est /\ est <= hi
            \/ status = "convergence_failure" /\ ~DomainError(p) /\ ~Converged
                   /\ iter = MaxIter
            \/ status = "domain_error" /\ DomainError(p) /\ iter = 0)
    /\ <>(qpc = "returned")

\* C5 witness: a call has ended in a convergence failure with its budget spent.
C5_Witness ==
    /\ qpc = "returned"
    /\ status = "convergence_failure"
    /\ iter = MaxIter
    /\ ~DomainError(p)

\* C7: every probability passed to mapairy_quantile, by any sweep and in either
\* complement mode, lies strictly between 0 and 1.
C7_QuantileArgumentsInOpenUnitInterval ==
    \A c \in calls :
        c.f = "mapairy_quantile" => Less(Zero, c.x) /\ Less(c.x, d1)

\* C7 witness: plot_quantile has evaluated its largest probability, 8191/8192.
C7_Witness ==
    /\ pc = "plot_quantile"
    /\ calls = {Call("mapairy_quantile", D(8191, -13), FALSE)}
    /\ ~quantile_cond(x)

\* The number of columns of each output file.
Columns(path) == IF path = "../results/mapairy_cdf_cpp.csv" THEN 3 ELSE 2

\* A data row (input, output...) of as many fields as the header.
RowOK(o, row) ==
    /\ Len(row) = Len(o.header)
    /\ row[1].k = "in"
    /\ \A i \in 2..Len(row) : row[i].k = "out" /\ row[i].v = row[1].v

FileOK(o) ==
    /\ o.hdrs = 1
    /\ o.first = "header"
    /\ ~o.ragged
    /\ Len(o.header) = Columns(o.path)
    /\ o.last # <<>> => RowOK(o, o.last)
    /\ o.prev # <<>> => RowOK(o, o.prev)

\* C8: every output file, while it is written and once it is closed, holds
\* exactly one header row, which is its first row, and otherwise only data rows
\* (input, output...) of as many fields as the header: 3 for the cdf file, 2
\* for the others.
C8_FilesAreHeaderThenUniformRows ==
    /\ ofs # NoStream => FileOK(ofs)
    /\ \A i \in 1..Len(closed) : FileOK(closed[i])

\* C8 witness: all seven files are closed, each with data rows.
C8_Witness ==
    /\ Len(closed) = 7
    /\ \A i \in 1..7 : closed[i].prev # <<>>
    /\ Len(closed[3].last) = 3

Increasing == {"plot_pdf", "plot_pdf_limit", "plot_cdf", "plot_cdf_limit", "plot_quantile"}

\* C9: the inputs written to a file are strictly monotone (increasing, or
\* decreasing in the two quantile limit sweeps), octave boundaries included,
\* every octave of a nested sweep contributes the same number of samples, and
\* no step is absorbed by rounding (every sample is exact in binary64).
C9_InputsStrictlyMonotone ==
    /\ DoublesExact
    /\ ofs.prev # <<>> =>
           IF pc \in Increasing THEN Less(Input(ofs.prev), Input(ofs.last))
                                ELSE Less(Input(ofs.last), Input(ofs.prev))
    /\ at = "next" => n = IF pc = "plot_quantileupper_limit" THEN 128 ELSE 256

\* C9 witness: the first sample of a later octave has been written after the
\* last sample of the octave before it.
C9_Witness ==
    /\ pc = "plot_quantileupper_limit"
    /\ at = "inner"
    /\ n = 1
    /\ x0 = ldexp(1, -14)
    /\ Input(ofs.last) = ldexp(1, -14)
    /\ Input(ofs.prev) = D(129, -21)

\* The sweeps run in the order of main, one file open at a time, and END is
\* printed after the seventh file is closed.
MainOrder ==
    /\ \A i \in 1..Len(closed) : closed[i].path = Paths[i]
    /\ pc \in {"END", "done"} => Len(closed) = 7 /\ ofs = NoStream
    /\ pc \notin {"END", "done"} => Len(closed) = Index(pc) - 1
    /\ ofs # NoStream => ofs.path = filepath(pc) /\ at \notin {"open"}
    /\ (cout = <<"END">>) = (pc = "done")
    /\ cout \in {<<>>, <<"END">>}

Decreasing == {"plot_quantilelower_limit", "plot_quantileupper_limit"}

Nested == {"plot_pdf_limit", "plot_cdf_limit", "plot_quantileupper_limit"}

\* The position of a state in the run, as a tuple ordered lexicographically:
\* the statement of main, the phase of the plot_* function, the octave, the
\* part of the for-statement, and the samples taken in the running loop.
Rank ==
    << IF pc = "done" THEN 9 ELSE IF pc = "END" THEN 8 ELSE Index(pc),
       CASE at = "open" -> 0
         [] at \in {"for", "inner", "next"} -> 1
         [] at = "close" -> 2
         [] at = "terminated" -> 3,
       IF pc \notin Nested THEN 0
       ELSE IF pc \in Decreasing THEN -x0.e ELSE x0.e,
       CASE at = "inner" -> 1
         [] at = "next" -> 2
         [] OTHER -> 0,
       n >>

RECURSIVE LexLess(_, _)
LexLess(r, s) ==
    /\ r # <<>>
    /\ \/ Head(r) < Head(s)
       \/ Head(r) = Head(s) /\ LexLess(Tail(r), Tail(s))

\* Every component of Rank stays within fixed limits.
RankBounded ==
    /\ Rank[1] \in 1..9
    /\ Rank[2] \in 0..3
    /\ Rank[3] \in -65..135
    /\ Rank[4] \in 0..2
    /\ Rank[5] \in 0..71681

\* A step of a loop moves its variable strictly towards the loop's bound.
LoopProgress ==
    /\ (pc' = pc /\ at' = at /\ at \in {"for", "inner"}) =>
           IF pc \in Decreasing THEN Less(x', x) ELSE Less(x, x')
    /\ (pc' = pc /\ at = "next" /\ at' = "for") =>
           IF pc \in Decreasing THEN Less(x0', x0) ELSE Less(x0, x0')

\* The statement of main that is running can take a step.
CanStep ==
    CASE pc = "plot_pdf" -> ENABLED plot_pdf
      [] pc = "plot_pdf_limit" -> ENABLED plot_pdf_limit
      [] pc = "plot_cdf" -> ENABLED plot_cdf
      [] pc = "plot_cdf_limit" -> ENABLED plot_cdf_limit
      [] pc = "plot_quantile" -> ENABLED plot_quantile
      [] pc = "plot_quantilelower_limit" -> ENABLED plot_quantilelower_limit
      [] pc = "plot_quantileupper_limit" -> ENABLED plot_quantileupper_limit
      [] pc = "END" -> ENABLED PrintEnd
      [] OTHER -> FALSE

\* C10: the sweeps run in the fixed order with each file closed before the
\* next is opened and END printed only after the seventh file is closed; every
\* step moves the loop variable strictly towards its bound and strictly
\* raises the bounded rank of the state, so that a run takes finitely many
\* steps; and a run stops only when main has returned or an evaluator raised.
C10_MainTerminatesInOrder ==
    /\ []MainOrder
    /\ []RankBounded
    /\ [][LexLess(Rank, Rank') /\ LoopProgress]_vars
    /\ [](pc = "done" \/ at = "terminated" \/ CanStep)

\* C10 witness: main has returned after printing END with seven files closed.
C10_Witness ==
    /\ pc = "done"
    /\ cout = <<"END">>
    /\ Len(closed) = 7

====
